---- MODULE Spec2Model ----
(***************************************************************************)
(* A model of tcx-primitive's BIP32 extended keys (src/tcx-primitive/src/  *)
(* bip32.rs): master key creation, private and public path derivation, the *)
(* public projection and the 78-byte base58check codec.                    *)
(*                                                                         *)
(* The functions of the file are pure; the state of the model is the one   *)
(* value a caller holds (nothing, an extended private key, an extended     *)
(* public key or a text) and the record of the last call made on it.       *)
(*                                                                         *)
(* What the file takes from its libraries is modelled at the call sites:   *)
(*   - secp256k1 is the curve y^2 = x^3 + 7 over F_13, whose group has the *)
(*     prime order 7: the same equation and the same group law on a field  *)
(*     small enough to enumerate.  Scalars and coordinates keep their      *)
(*     32-byte big-endian wire form.                                       *)
(*   - HMAC-SHA512, HASH160 and the double SHA-256 of the checksum are     *)
(*     deterministic mixing functions of their input bytes.                *)
(*   - base58 is the digit-by-digit radix conversion of the library.       *)
(***************************************************************************)
EXTENDS Integers, Sequences, FiniteSets, TLC

VARIABLES
    held,   \* the value the caller holds
    call    \* the last call: operation, receiver, argument, outcome

vars == <<held, call>>

----------------------------------------------------------------------------
(* Bounds of the model *)

MaxPathLen == 2
MaxSeedLen == 1

----------------------------------------------------------------------------
(* Bytes and byte strings *)

Byte == 0..255

Zeros(n) == [i \in 1..n |-> 0]

Slice(s, from, to) == SubSeq(s, from + 1, to)   \* Rust's s[from..to]

AllZero(s) == \A i \in 1..Len(s) : s[i] = 0

\* A deterministic mixing function standing for the cryptographic hashes.
\* x, then e: TLC evaluates an operator's arguments on demand, and this makes
\* it evaluate x first.
After(x, e) == IF x = x THEN e ELSE e

\* The loop over s[lo..hi] is evaluated as a balanced fold (here and in the
\* base58 loops below) to keep the evaluation shallow; the result is that of
\* the left-to-right loop.
RECURSIVE MixRange(_, _, _, _)
MixRange(s, lo, hi, acc) ==
    IF lo > hi THEN acc
    ELSE IF lo = hi THEN (acc * acc + acc + s[lo] * 131 + 7) % 32749
    ELSE LET mid  == (lo + hi) \div 2
             left == MixRange(s, lo, mid, acc)
         IN  After(left, MixRange(s, mid + 1, hi, left))

Mix(s) == MixRange(s, 1, Len(s), 1)

----------------------------------------------------------------------------
(* The curve: SECP256K1_ENGINE *)

FieldP == 13      \* the field prime
CurveB == 7       \* y^2 = x^3 + 7
CurveN == 7       \* the order of the group, a prime

Infinity == [inf |-> TRUE, x |-> 0, y |-> 0]
Pt(x, y) == [inf |-> FALSE, x |-> x, y |-> y]
GeneratorG == Pt(7, 5)

OnCurve(x, y) == (y * y) % FieldP = (x * x * x + CurveB) % FieldP

FieldInv(a) == CHOOSE b \in 1..(FieldP - 1) : (a * b) % FieldP = 1

PointAdd(P, Q) ==
    IF P.inf THEN Q
    ELSE IF Q.inf THEN P
    ELSE IF P.x = Q.x /\ (P.y + Q.y) % FieldP = 0 THEN Infinity
    ELSE LET lam == IF P.x = Q.x
                    THEN (3 * P.x * P.x * FieldInv((2 * P.y) % FieldP)) % FieldP
                    ELSE ((Q.y - P.y + FieldP)
                          * FieldInv((Q.x - P.x + FieldP) % FieldP)) % FieldP
             x3  == (lam * lam + 2 * FieldP - P.x - Q.x) % FieldP
             y3  == (lam * (P.x - x3 + FieldP) + FieldP - P.y) % FieldP
         IN  Pt(x3, y3)

RECURSIVE ScalarMul(_, _)
ScalarMul(k, P) == IF k = 0 THEN Infinity ELSE PointAdd(P, ScalarMul(k - 1, P))

\* secp256k1::SecretKey::from_slice: 32 bytes, big-endian, 0 < value < order.
ScalarValid(bytes) ==
    /\ Len(bytes) = 32
    /\ AllZero(Slice(bytes, 0, 31))
    /\ bytes[32] >= 1
    /\ bytes[32] < CurveN

ScalarBytes(k) == Zeros(31) \o <<k>>
ScalarOf(bytes) == bytes[32]                  \* of a valid scalar

\* secp256k1::PublicKey::serialize: the 33-byte compressed form.
SerializePoint(P) == <<2 + (P.y % 2)>> \o Zeros(31) \o <<P.x>>

\* bitcoin::PublicKey::from_slice on 33 bytes: [ok, point].
ParsePoint(bytes) ==
    IF /\ Len(bytes) = 33
       /\ bytes[1] \in {2, 3}
       /\ AllZero(Slice(bytes, 1, 32))
       /\ bytes[33] < FieldP
       /\ \E y \in 0..(FieldP - 1) : OnCurve(bytes[33], y)
    THEN [ok |-> TRUE,
          point |-> Pt(bytes[33],
                       CHOOSE y \in 0..(FieldP - 1) :
                           OnCurve(bytes[33], y) /\ y % 2 = bytes[1] - 2)]
    ELSE [ok |-> FALSE, point |-> Infinity]

\* PublicKey::from_private_key
PublicPoint(sk) == ScalarMul(ScalarOf(sk), GeneratorG)

----------------------------------------------------------------------------
(* Hashes *)

BitcoinSeed == <<66, 105, 116, 99, 111, 105, 110, 32, 115, 101, 101, 100>>

\* HMAC-SHA512(key, data), split as the library splits it: il is the left
\* 32 bytes (a scalar candidate: zero, valid, or not below the order), ir
\* the right 32 bytes (a chain code).
HmacSha512(key, data) ==
    LET m == Mix(key \o <<Len(key)>> \o data)
    IN  [il |-> Zeros(31) \o <<m % (CurveN + 2)>>,
         ir |-> Zeros(31) \o <<(m \div (CurveN + 2)) % 4>>]

\* ExtendedPubKey::fingerprint: the first 4 bytes of HASH160 of the
\* serialized public key.
Fingerprint(P) ==
    LET m == Mix(SerializePoint(P))
    IN  <<m % 256, (m \div 256) % 256, (m * 7) % 256, (m * 13 + 5) % 256>>

----------------------------------------------------------------------------
(* Child numbers and junctions *)

\* bitcoin::util::bip32::ChildNumber
Normal(index) == [hardened |-> FALSE, index |-> index]
Hardened(index) == [hardened |-> TRUE, index |-> index]

\* ChildNumber::from(u32) applied to BigEndian::read_u32 of 4 bytes: the
\* high bit selects Hardened, the low 31 bits are the index.
ChildNumberFromBytes(b) ==
    [hardened |-> b[1] >= 128,
     index |-> (b[1] % 128) * 16777216 + b[2] * 65536 + b[3] * 256 + b[4]]

\* A write of the index alone, without the hardened bit: the variant under
\* which the round trip of the codec fails.
ChildNumberBytes_index_only(cn) ==
    <<cn.index \div 16777216,
      (cn.index \div 65536) % 256,
      (cn.index \div 256) % 256,
      cn.index % 256>>

\* BigEndian::write_u32 of u32::from(ChildNumber)
ChildNumberBytes(cn) ==
    <<(IF cn.hardened THEN 128 ELSE 0) + cn.index \div 16777216,
      (cn.index \div 65536) % 256,
      (cn.index \div 256) % 256,
      cn.index % 256>>

\* DeriveJunction -> ChildNumber (j.try_into()): an index below 2^31 converts.
TryIntoChildNumber(j) ==
    [ok |-> TRUE, cn |-> IF j.hardened THEN Hardened(j.index) ELSE Normal(j.index)]

----------------------------------------------------------------------------
(* Errors and outcomes *)

\* tcx-primitive's KeyError / tcx-chain's Error: the taxonomy.
KeyError(variant) == [type |-> "KeyError", variant |-> variant]
\* bitcoin::util::base58::Error, converted by `?` into failure::Error as it is.
Base58Error(variant) == [type |-> "base58::Error", variant |-> variant]

NoKey == [depth |-> 0 - 1]
NoErr == [type |-> "", variant |-> ""]

Ok(key) == [tag |-> "ok", key |-> key, err |-> NoErr]
Err(e) == [tag |-> "err", key |-> NoKey, err |-> e]
Panic == [tag |-> "panic", key |-> NoKey, err |-> NoErr]

\* A library result whose error is a Bip32Error variant name.
Bip32Err(variant) == Err([type |-> "bip32::Error", variant |-> variant])

transform_bip32_error(err) ==
    CASE err = "Ecdsa" -> KeyError("InvalidEcdsa")
      [] err = "RngError" -> KeyError("OverflowChildNumber")
      [] err = "CannotDeriveFromHardenedKey" -> KeyError("CannotDeriveFromHardenedKey")
      [] err = "InvalidChildNumber" -> KeyError("InvalidChildNumber")
      [] err = "InvalidChildNumberFormat" -> KeyError("InvalidChildNumber")
      [] err = "InvalidDerivationPathFormat" -> KeyError("InvalidDerivationPathFormat")

\* result.map_err(transform_bip32_error)
MapErr(r) == IF r.tag = "err" THEN Err(transform_bip32_error(r.err.variant)) ELSE r

----------------------------------------------------------------------------
(* bitcoin::util::bip32, as called *)

\* u8 addition self.depth + 1: wraps in a build without overflow checks.
DepthPlusOne(depth) == (depth + 1) % 256

\* ExtendedPrivKey::new_master(Network::Bitcoin, seed)
new_master(seed) ==
    LET h == HmacSha512(BitcoinSeed, seed)
    IN  IF ~ScalarValid(h.il) THEN Bip32Err("Ecdsa")
        ELSE Ok([depth |-> 0,
                 parent_fingerprint |-> <<0, 0, 0, 0>>,
                 child_number |-> Normal(0),
                 chain_code |-> h.ir,
                 private_key |-> h.il])

\* The keyed hash inside ckd_priv: over 0 and the private key for a hardened
\* child, over the serialized public key for a normal one, then the number.
ckd_priv_hmac(k, i) ==
    HmacSha512(k.chain_code,
               (IF i.hardened
                THEN <<0>> \o k.private_key
                ELSE SerializePoint(PublicPoint(k.private_key)))
               \o ChildNumberBytes(i))

\* ExtendedPrivKey::ckd_priv(&SECP256K1_ENGINE, i)
ckd_priv(k, i, checks) ==
    LET h    == ckd_priv_hmac(k, i)
        sum  == (ScalarOf(h.il) + ScalarOf(k.private_key)) % CurveN
    IN  IF ~ScalarValid(h.il) THEN Bip32Err("Ecdsa")
        ELSE IF sum = 0 THEN Bip32Err("Ecdsa")
        ELSE IF k.depth = 255 /\ checks THEN Panic
        ELSE Ok([depth |-> DepthPlusOne(k.depth),
                 parent_fingerprint |-> Fingerprint(PublicPoint(k.private_key)),
                 child_number |-> i,
                 chain_code |-> h.ir,
                 private_key |-> ScalarBytes(sum)])

\* A child step that does not look at the hardened flag: the variant under
\* which public derivation returns a key on a hardened junction.
ckd_pub_any_child(k, i, checks) ==
    LET data == SerializePoint(k.public_key) \o ChildNumberBytes(i)
        h    == HmacSha512(k.chain_code, data)
        pk   == PointAdd(k.public_key, ScalarMul(ScalarOf(h.il), GeneratorG))
    IN  IF ~ScalarValid(h.il) THEN Bip32Err("Ecdsa")
        ELSE IF pk.inf THEN Bip32Err("Ecdsa")
        ELSE IF k.depth = 255 /\ checks THEN Panic
        ELSE Ok([depth |-> DepthPlusOne(k.depth),
                 parent_fingerprint |-> Fingerprint(k.public_key),
                 child_number |-> i,
                 chain_code |-> h.ir,
                 public_key |-> pk])

\* A child step that keeps the parent's point (no tweak added): the variant
\* under which private and public derivation do not commute.
ckd_pub_untweaked(k, i, checks) ==
    IF i.hardened THEN Bip32Err("CannotDeriveFromHardenedKey")
    ELSE
    LET data == SerializePoint(k.public_key) \o ChildNumberBytes(i)
        h    == HmacSha512(k.chain_code, data)
    IN  IF ~ScalarValid(h.il) THEN Bip32Err("Ecdsa")
        ELSE IF k.depth = 255 /\ checks THEN Panic
        ELSE Ok([depth |-> DepthPlusOne(k.depth),
                 parent_fingerprint |-> Fingerprint(k.public_key),
                 child_number |-> i,
                 chain_code |-> h.ir,
                 public_key |-> k.public_key])

\* ExtendedPubKey::ckd_pub(&SECP256K1_ENGINE, i), with ckd_pub_tweak
ckd_pub(k, i, checks) ==
    IF i.hardened THEN Bip32Err("CannotDeriveFromHardenedKey")
    ELSE
    LET data == SerializePoint(k.public_key) \o ChildNumberBytes(i)
        h    == HmacSha512(k.chain_code, data)
        pk   == PointAdd(k.public_key, ScalarMul(ScalarOf(h.il), GeneratorG))
    IN  IF ~ScalarValid(h.il) THEN Bip32Err("Ecdsa")
        ELSE IF pk.inf THEN Bip32Err("Ecdsa")
        ELSE IF k.depth = 255 /\ checks THEN Panic
        ELSE Ok([depth |-> DepthPlusOne(k.depth),
                 parent_fingerprint |-> Fingerprint(k.public_key),
                 child_number |-> i,
                 chain_code |-> h.ir,
                 public_key |-> pk])

\* ExtendedPubKey::from_private(&SECP256K1_ENGINE, sk)
from_private(k) ==
    [depth |-> k.depth,
     parent_fingerprint |-> k.parent_fingerprint,
     child_number |-> k.child_number,
     chain_code |-> k.chain_code,
     public_key |-> PublicPoint(k.private_key)]

----------------------------------------------------------------------------
(* Master keys, derivation, projection *)

\* Bip32DeterministicPrivateKey::from_seed (inherent)
from_seed(seed) == MapErr(new_master(seed))

\* <Bip32DeterministicPrivateKey as DeterministicPrivateKey>::from_seed
DeterministicPrivateKey_from_seed(seed) == MapErr(new_master(seed))

\* One turn of the loop of derive: j.try_into()?, then the child step with
\* map_err(transform_bip32_error)?.
PrivStep(k, j, checks) ==
    LET cn == TryIntoChildNumber(j)
    IN  IF ~cn.ok THEN Err(KeyError("InvalidChildNumber"))
        ELSE MapErr(ckd_priv(k, cn.cn, checks))

PubStep(k, j, checks) ==
    LET cn == TryIntoChildNumber(j)
    IN  IF ~cn.ok THEN Err(KeyError("InvalidChildNumber"))
        ELSE MapErr(ckd_pub(k, cn.cn, checks))

\* A loop that goes on with the key it has when a step fails: the variant
\* under which derive is no fold that stops at the first failure.
RECURSIVE PrivLoop_goes_on(_, _, _, _)
PrivLoop_goes_on(extended_key, path, i, checks) ==
    IF i > Len(path)
    THEN Ok(extended_key) @@ [taken |-> i - 1]
    ELSE LET r == PrivStep(extended_key, path[i], checks)
         IN  IF r.tag = "ok" THEN PrivLoop_goes_on(r.key, path, i + 1, checks)
             ELSE PrivLoop_goes_on(extended_key, path, i + 1, checks)

\* The loop `for j in path` from junction i on, extended_key being the key
\* so far; taken counts the junctions taken from the iterator.
RECURSIVE PrivLoop(_, _, _, _)
PrivLoop(extended_key, path, i, checks) ==
    IF i > Len(path)
    THEN Ok(extended_key) @@ [taken |-> i - 1]
    ELSE LET r == PrivStep(extended_key, path[i], checks)
         IN  IF r.tag = "ok" THEN PrivLoop(r.key, path, i + 1, checks)
             ELSE r @@ [taken |-> i]

RECURSIVE PubLoop(_, _, _, _)
PubLoop(extended_key, path, i, checks) ==
    IF i > Len(path)
    THEN Ok(extended_key) @@ [taken |-> i - 1]
    ELSE LET r == PubStep(extended_key, path[i], checks)
         IN  IF r.tag = "ok" THEN PubLoop(r.key, path, i + 1, checks)
             ELSE r @@ [taken |-> i]

\* <Bip32DeterministicPrivateKey as Derive>::derive
priv_derive(self, path, checks) == PrivLoop(self, path, 1, checks)

\* <Bip32DeterministicPublicKey as Derive>::derive
pub_derive(self, path, checks) == PubLoop(self, path, 1, checks)

\* DeterministicPrivateKey::deterministic_public_key
deterministic_public_key(self) == from_private(self)

----------------------------------------------------------------------------
(* bitcoin::util::base58 *)

\* BASE58_CHARS, as ASCII codes:
\* 123456789ABCDEFGHJKLMNPQRSTUVWXYZabcdefghijkmnopqrstuvwxyz
BASE58_CHARS ==
    <<
      49, 50, 51, 52, 53, 54, 55, 56, 57, 65, 66, 67, 68, 69, 70, 71,
      72, 74, 75, 76, 77, 78, 80, 81, 82, 83, 84, 85, 86, 87, 88, 89,
      90, 97, 98, 99, 100, 101, 102, 103, 104, 105, 106, 107, 109, 110, 111, 112,
      113, 114, 115, 116, 117, 118, 119, 120, 121, 122 >>

\* BASE58_DIGITS: the digit of each ASCII code 0..127 (at index code + 1),
\* -1 where the library has None.
BASE58_DIGITS ==
    <<
      -1, -1, -1, -1, -1, -1, -1, -1, -1, -1, -1, -1, -1, -1, -1, -1,
      -1, -1, -1, -1, -1, -1, -1, -1, -1, -1, -1, -1, -1, -1, -1, -1,
      -1, -1, -1, -1, -1, -1, -1, -1, -1, -1, -1, -1, -1, -1, -1, -1,
      -1, 0, 1, 2, 3, 4, 5, 6, 7, 8, -1, -1, -1, -1, -1, -1,
      -1, 9, 10, 11, 12, 13, 14, 15, 16, -1, 17, 18, 19, 20, 21, -1,
      22, 23, 24, 25, 26, 27, 28, 29, 30, 31, 32, -1, -1, -1, -1, -1,
      -1, 33, 34, 35, 36, 37, 38, 39, 40, 41, 42, 43, -1, 44, 45, 46,
      47, 48, 49, 50, 51, 52, 53, 54, 55, 56, 57, -1, -1, -1, -1, -1 >>

IsBase58Char(c) == c < 128 /\ BASE58_DIGITS[c + 1] >= 0

\* The checksum: the first 4 bytes of the double SHA-256 of the payload.
Checksum(payload) ==
    LET m == Mix(payload)
    IN  <<m % 256, (m \div 256) % 256, (m * 3 + 1) % 256, (m * 11 + Len(payload)) % 256>>

\* take_while(|x| x == v).count()
LeadingCount(s, v) ==
    LET other == {i \in 1..Len(s) : s[i] # v}
    IN  IF other = {} THEN Len(s)
        ELSE (CHOOSE i \in other : \A j \in other : i <= j) - 1

TrailingCount(s, v) ==
    LET other == {i \in 1..Len(s) : s[i] # v}
    IN  IF other = {} THEN Len(s)
        ELSE Len(s) - (CHOOSE i \in other : \A j \in other : i >= j)

DropLeading(s, v) == SubSeq(s, LeadingCount(s, v) + 1, Len(s))

(* The radix conversion between base 256 and base 58.  The library works one *)
(* byte and one digit at a time; here the same numbers are held two bytes    *)
(* (base 65536) and two digits (base 58 * 58 = 3364) to a limb.  Encoding    *)
(* divides repeatedly, decoding multiplies and adds.                         *)

\* The bytes of a big-endian number as big-endian 16-bit limbs.
LimbsOfBytes(bytes) ==
    LET n   == Len(bytes)
        m   == (n + 1) \div 2
        off == 2 * m - n
    IN  [i \in 1..m |->
            (IF 2 * i - 1 - off >= 1 THEN bytes[2 * i - 1 - off] * 256 ELSE 0)
            + bytes[2 * i - off]]

\* limbs (big-endian, from limb i on) divided by 3364 with rem carried in:
\* the quotient's limbs, then the remainder as the last element.
RECURSIVE DivFrom(_, _, _)
DivFrom(limbs, i, rem) ==
    IF i > Len(limbs) THEN <<rem>>
    ELSE LET cur == rem * 65536 + limbs[i]
         IN  <<cur \div 3364>> \o DivFrom(limbs, i + 1, cur % 3364)

\* One division: two more digits (least significant first).
EncodeStep(st) ==
    IF st.limbs = <<>> THEN st
    ELSE LET r   == DivFrom(st.limbs, 1, 0)
             rem == r[Len(r)]
         IN  [limbs  |-> DropLeading(SubSeq(r, 1, Len(r) - 1), 0),
              digits |-> st.digits \o <<rem % 58, rem \div 58>>]

RECURSIVE EncodeSteps(_, _)
EncodeSteps(st, k) ==
    IF k = 0 THEN st
    ELSE IF k = 1 THEN EncodeStep(st)
    ELSE LET left == EncodeSteps(st, k \div 2)
         IN  After(left, EncodeSteps(left, k - k \div 2))

\* base58::encode_slice: a '1' for each leading zero byte, then the digits of
\* the number, most significant first.
encode_slice(data) ==
    LET limbs == DropLeading(LimbsOfBytes(data), 0)
        done  == EncodeSteps([limbs |-> limbs, digits |-> <<>>], 2 * Len(limbs))
        ret   == SubSeq(done.digits, 1, Len(done.digits) - TrailingCount(done.digits, 0))
                 \o Zeros(LeadingCount(data, 0))
    IN  [i \in 1..Len(ret) |-> BASE58_CHARS[ret[Len(ret) + 1 - i] + 1]]

\* base58::check_encode_slice
check_encode_slice(data) == encode_slice(data \o Checksum(data))

\* scratch (little-endian 16-bit limbs, from limb i on) times 3364 plus carry.
RECURSIVE MulFrom(_, _, _)
MulFrom(scratch, i, carry) ==
    IF i > Len(scratch) THEN (IF carry = 0 THEN <<>> ELSE <<carry>>)
    ELSE LET cur == scratch[i] * 3364 + carry
         IN  <<cur % 65536>> \o MulFrom(scratch, i + 1, cur \div 65536)

\* The digit pairs lo..hi of digits (pair k is digits[2k-1], digits[2k]).
RECURSIVE DecodePairs(_, _, _, _)
DecodePairs(digits, lo, hi, scratch) ==
    IF lo > hi THEN scratch
    ELSE IF lo = hi
    THEN MulFrom(scratch, 1, digits[2 * lo - 1] * 58 + digits[2 * lo])
    ELSE LET mid  == (lo + hi) \div 2
             left == DecodePairs(digits, lo, mid, scratch)
         IN  After(left, DecodePairs(digits, mid + 1, hi, left))

\* Little-endian 16-bit limbs as big-endian bytes.
BytesOfLimbs(limbs) ==
    [i \in 1..(2 * Len(limbs)) |->
        LET limb == limbs[Len(limbs) - ((i + 1) \div 2) + 1]
        IN  IF i % 2 = 1 THEN limb \div 256 ELSE limb % 256]

FirstBadByte(data) ==
    LET bad == {i \in 1..Len(data) : ~IsBase58Char(data[i])}
    IN  CHOOSE i \in bad : \A j \in bad : i <= j

\* base58::from: [ok, bytes, err]
base58_from(data) ==
    IF \E i \in 1..Len(data) : ~IsBase58Char(data[i])
    THEN [ok |-> FALSE, bytes |-> <<>>,
          err |-> Base58Error("BadByte") @@ [byte |-> data[FirstBadByte(data)]]]
    ELSE LET ones   == LeadingCount(data, BASE58_CHARS[1])
             n      == Len(data) - ones
             \* the digits after the leading ones, with a 0 in front when
             \* their number is odd
             digits == [i \in 1..(n + (n % 2)) |->
                           IF i = 1 /\ n % 2 = 1 THEN 0
                           ELSE BASE58_DIGITS[data[ones + i - (n % 2)] + 1]]
             limbs  == DecodePairs(digits, 1, Len(digits) \div 2, <<>>)
         IN  [ok |-> TRUE,
              bytes |-> Zeros(ones) \o DropLeading(BytesOfLimbs(limbs), 0),
              err |-> NoErr]

\* base58::from_check: [ok, bytes, err]
from_check(data) ==
    LET r == base58_from(data)
        n == Len(r.bytes)
    IN  IF ~r.ok THEN r
        ELSE IF n < 4
        THEN [ok |-> FALSE, bytes |-> <<>>, err |-> Base58Error("TooShort")]
        ELSE IF Checksum(Slice(r.bytes, 0, n - 4)) # Slice(r.bytes, n - 4, n)
        THEN [ok |-> FALSE, bytes |-> <<>>, err |-> Base58Error("BadChecksum")]
        ELSE [ok |-> TRUE, bytes |-> Slice(r.bytes, 0, n - 4), err |-> NoErr]

----------------------------------------------------------------------------
(* Ss58Codec *)

PayloadLen == 78

\* <Bip32DeterministicPublicKey as Ss58Codec>::from_ss58check_with_version
pub_from_ss58check_with_version(s) ==
    LET r    == from_check(s)
        data == r.bytes
        pk   == ParsePoint(Slice(data, 45, 78))
    IN  IF ~r.ok THEN Err(r.err) @@ [version |-> <<>>]
        ELSE IF Len(data) # PayloadLen
        THEN Err(KeyError("InvalidBase58")) @@ [version |-> <<>>]
        ELSE IF ~pk.ok THEN Err(Base58Error("Other")) @@ [version |-> <<>>]
        ELSE Ok([depth |-> data[5],
                 parent_fingerprint |-> Slice(data, 5, 9),
                 child_number |-> ChildNumberFromBytes(Slice(data, 9, 13)),
                 chain_code |-> Slice(data, 13, 45),
                 public_key |-> pk.point])
             @@ [version |-> Slice(data, 0, 4)]

\* <Bip32DeterministicPublicKey as Ss58Codec>::to_ss58check_with_version
pub_to_ss58check_with_version(self, version) ==
    IF Len(version) # 4
    THEN [tag |-> "panic", text |-> <<>>]      \* copy_from_slice: length mismatch
    ELSE [tag |-> "ok",
          text |-> check_encode_slice(
                       version
                       \o <<self.depth>>
                       \o self.parent_fingerprint
                       \o ChildNumberBytes(self.child_number)
                       \o self.chain_code
                       \o SerializePoint(self.public_key))]

\* <Bip32DeterministicPrivateKey as Ss58Codec>::from_ss58check_with_version
priv_from_ss58check_with_version(s) ==
    LET r    == from_check(s)
        data == r.bytes
        sk   == Slice(data, 46, 78)
    IN  IF ~r.ok THEN Err(r.err) @@ [version |-> <<>>]
        ELSE IF Len(data) # PayloadLen
        THEN Err(Base58Error("InvalidLength")) @@ [version |-> <<>>]
        ELSE IF ~ScalarValid(sk) THEN Err(Base58Error("Other")) @@ [version |-> <<>>]
        ELSE Ok([depth |-> data[5],
                 parent_fingerprint |-> Slice(data, 5, 9),
                 child_number |-> ChildNumberFromBytes(Slice(data, 9, 13)),
                 chain_code |-> Slice(data, 13, 45),
                 private_key |-> sk])
             @@ [version |-> Slice(data, 0, 4)]

\* <Bip32DeterministicPrivateKey as Ss58Codec>::to_ss58check_with_version
priv_to_ss58check_with_version(self, version) ==
    IF Len(version) # 4
    THEN [tag |-> "panic", text |-> <<>>]      \* copy_from_slice: length mismatch
    ELSE [tag |-> "ok",
          text |-> check_encode_slice(
                       version
                       \o <<self.depth>>
                       \o self.parent_fingerprint
                       \o ChildNumberBytes(self.child_number)
                       \o self.chain_code
                       \o <<0>>
                       \o self.private_key)]

----------------------------------------------------------------------------
(* The inputs a caller supplies *)

SeedBytes == {1, 3, 4}

RECURSIVE SeqsUpTo(_, _)
SeqsUpTo(S, n) ==
    IF n = 0 THEN {<<>>}
    ELSE LET shorter == SeqsUpTo(S, n - 1)
         IN  shorter \cup {Append(q, x) : q \in shorter, x \in S}

Seeds == SeqsUpTo(SeedBytes, MaxSeedLen)

\* DeriveJunction: Soft(index) or Hard(index), index below 2^31
Soft(index) == [hardened |-> FALSE, index |-> index]
Hard(index) == [hardened |-> TRUE, index |-> index]
Junctions == {Soft(0), Soft(2147483647), Hard(1)}

Paths == SeqsUpTo(Junctions, MaxPathLen)

XPRV == <<4, 136, 173, 228>>
Versions == {XPRV, <<0, 0, 0, 1>>}
BadVersions == {<<>>, <<4, 136, 173>>, <<4, 136, 173, 228, 0>>}

\* Payloads a caller can have encoded elsewhere: keys at depth 255, with the
\* largest child number, with a pad byte that is not 0, with key material
\* that is no scalar or no point, and payloads of other lengths.
Header(depth, cn) == XPRV \o <<depth>> \o <<1, 2, 3, 4>> \o cn \o (Zeros(31) \o <<9>>)

ExternalPayloads ==
    { Header(255, <<255, 255, 255, 255>>) \o <<0>> \o ScalarBytes(2),
      Header(3, <<0, 0, 0, 5>>) \o <<1>> \o ScalarBytes(2),
      Header(3, <<0, 0, 0, 5>>) \o <<0>> \o ScalarBytes(0),
      Header(3, <<0, 0, 0, 5>>) \o <<0>> \o ScalarBytes(CurveN),
      Header(255, <<127, 255, 255, 255>>) \o SerializePoint(Pt(7, 5)),
      Header(3, <<128, 0, 0, 0>>) \o <<4>> \o ScalarBytes(7),
      Header(3, <<128, 0, 0, 0>>) \o <<2>> \o ScalarBytes(1),
      Header(3, <<0, 0, 0, 5>>) \o <<0>> \o Zeros(31),
      Header(3, <<0, 0, 0, 5>>) \o <<0>> \o ScalarBytes(2) \o <<0>>,
      <<>>,
      <<0, 0, 7>> }

INVALID_XPUB == <<105, 110, 118, 97, 108, 105, 100, 95, 120, 112, 117, 98>>

\* The last character replaced by another character of the alphabet.
Tampered(text) ==
    [text EXCEPT ![Len(text)] = IF @ = BASE58_CHARS[1] THEN BASE58_CHARS[2]
                                ELSE BASE58_CHARS[1]]

ExternalTexts ==
    {check_encode_slice(p) : p \in ExternalPayloads}
    \cup {Tampered(check_encode_slice(Header(3, <<0, 0, 0, 5>>) \o <<0>> \o ScalarBytes(2))),
          encode_slice(<<1, 2>>),
          <<>>,
          INVALID_XPUB}

----------------------------------------------------------------------------
(* The caller *)

Nothing == [kind |-> "none"]
Aborted == [kind |-> "aborted"]
HeldPriv(key) == [kind |-> "xprv", key |-> key]
HeldPub(key) == [kind |-> "xpub", key |-> key]
\* A text, and where it came from: the key and version it encodes, or none.
HeldText(text, src) == [kind |-> "text", text |-> text, src |-> src]
NoSrc == [kind |-> "none"]

\* The last call: its receiver (or what the caller held), argument and
\* outcome, and whether the build checks arithmetic overflow.
Call(op, self, arg, res) ==
    [op |-> op, self |-> self, arg |-> arg, res |-> res, checks |-> TRUE]

\* Paths are bounded by the depth they lead to; a key at depth 255 (one that
\* decode returned) derives too.
CanDerive(key, path) ==
    key.depth + Len(path) <= MaxPathLen \/ key.depth = 255

After_call(r, ok_value) ==
    IF r.tag = "ok" THEN ok_value ELSE IF r.tag = "panic" THEN Aborted ELSE held

Init ==
    /\ held = Nothing
    /\ call = Call("none", Nothing, <<>>, [tag |-> "none"])

\* (The outcome of a call is bound with \E r \in {...}: it is one value.)
FromSeed ==
    /\ held.kind = "none"
    /\ \E seed \in Seeds :
       \E r \in {from_seed(seed)} :
           /\ call' = Call("from_seed", held, seed, r)
           /\ held' = After_call(r, HeldPriv(r.key))

TraitFromSeed ==
    /\ held.kind = "none"
    /\ \E seed \in Seeds :
       \E r \in {DeterministicPrivateKey_from_seed(seed)} :
           /\ call' = Call("DeterministicPrivateKey::from_seed", held, seed, r)
           /\ held' = After_call(r, HeldPriv(r.key))

\* Whether the build panics on arithmetic overflow (TRUE, a debug build) or
\* wraps (FALSE): the builds differ only where the depth can pass 255.
OverflowChecks(key, path) ==
    IF key.depth + Len(path) > 255 THEN BOOLEAN ELSE {TRUE}

PrivDerive ==
    /\ held.kind = "xprv"
    /\ \E path \in Paths :
           /\ CanDerive(held.key, path)
           /\ \E checks \in OverflowChecks(held.key, path) :
              \E r \in {priv_derive(held.key, path, checks)} :
                  /\ call' = [Call("priv_derive", held.key, path, r)
                                  EXCEPT !.checks = checks]
                  /\ held' = After_call(r, HeldPriv(r.key))

PubDerive ==
    /\ held.kind = "xpub"
    /\ \E path \in Paths :
           /\ CanDerive(held.key, path)
           /\ \E checks \in OverflowChecks(held.key, path) :
              \E r \in {pub_derive(held.key, path, checks)} :
                  /\ call' = [Call("pub_derive", held.key, path, r)
                                  EXCEPT !.checks = checks]
                  /\ held' = After_call(r, HeldPub(r.key))

DeterministicPublicKey ==
    /\ held.kind = "xprv"
    /\ \E r \in {Ok(deterministic_public_key(held.key))} :
           /\ call' = Call("deterministic_public_key", held.key, <<>>, r)
           /\ held' = HeldPub(r.key)

PrivEncode ==
    /\ held.kind = "xprv"
    /\ \E version \in Versions \cup BadVersions :
       \E r \in {priv_to_ss58check_with_version(held.key, version)} :
           /\ call' = Call("priv_to_ss58check_with_version", held.key, version, r)
           /\ held' = After_call(r, HeldText(r.text,
                          [kind |-> "xprv", key |-> held.key, version |-> version]))

PubEncode ==
    /\ held.kind = "xpub"
    /\ \E version \in Versions \cup BadVersions :
       \E r \in {pub_to_ss58check_with_version(held.key, version)} :
           /\ call' = Call("pub_to_ss58check_with_version", held.key, version, r)
           /\ held' = After_call(r, HeldText(r.text,
                          [kind |-> "xpub", key |-> held.key, version |-> version]))

PrivDecode ==
    /\ held.kind = "text"
    /\ \E r \in {priv_from_ss58check_with_version(held.text)} :
           /\ call' = Call("priv_from_ss58check_with_version", held, held.text, r)
           /\ held' = After_call(r, HeldPriv(r.key))

PubDecode ==
    /\ held.kind = "text"
    /\ \E r \in {pub_from_ss58check_with_version(held.text)} :
           /\ call' = Call("pub_from_ss58check_with_version", held, held.text, r)
           /\ held' = After_call(r, HeldPub(r.key))

SupplyText ==
    /\ held.kind = "none"
    /\ \E text \in ExternalTexts :
        /\ call' = Call("none", held, text, [tag |-> "none"])
        /\ held' = HeldText(text, NoSrc)

Next ==
    \/ FromSeed
    \/ TraitFromSeed
    \/ PrivDerive
    \/ PubDerive
    \/ DeterministicPublicKey
    \/ PrivEncode
    \/ PubEncode
    \/ PrivDecode
    \/ PubDecode
    \/ SupplyText

Spec == Init /\ [][Next]_vars

----------------------------------------------------------------------------
(* The codec *)

DecodeOps == {"priv_from_ss58check_with_version", "pub_from_ss58check_with_version"}

\* The kind of key each decoder returns.
KindOf(op) == IF op = "priv_from_ss58check_with_version" THEN "xprv" ELSE "xpub"

\* C1: decoding the text that to_ss58check_with_version produced from a key
\* and a 4-byte version, with the decoder of the same kind of key, succeeds
\* and returns that key, equal in every field, and those 4 version bytes.
C1_RoundTrip ==
    (call.op \in DecodeOps /\ call.self.src.kind = KindOf(call.op))
        => /\ call.res.tag = "ok"
           /\ call.res.key = call.self.src.key
           /\ call.res.version = call.self.src.version

\* A private key with a hardened child number, encoded under a version other
\* than XPRV, has been decoded again.
C1_Witness ==
    /\ call.op = "priv_from_ss58check_with_version"
    /\ call.self.src.kind = "xprv"
    /\ call.self.src.key.child_number.hardened
    /\ call.self.src.version # XPRV
    /\ call.res.tag = "ok"

\* C4: a text that decodes with a correct checksum to a payload whose length
\* is not 78 bytes makes either decoder fail with InvalidLength.
C4_LengthGuard ==
    call.op \in DecodeOps
        => \/ call.res.tag = "err" /\ call.res.err.variant = "InvalidLength"
           \/ LET checked == from_check(call.arg)
              IN  ~checked.ok \/ Len(checked.bytes) = PayloadLen

\* C6: every error that from_seed, derive and from_ss58check_with_version
\* return is a KeyError of the taxonomy; no error of a library is returned.
C6_ClosedTaxonomy ==
    call.res.tag = "err" => call.res.err.type = "KeyError"

\* C10: a text that a decoder accepts is the text that encoding the returned
\* key under the returned version bytes produces.
C10_Canonical ==
    (call.op \in DecodeOps /\ call.res.tag = "ok")
        => LET again == IF call.op = "priv_from_ss58check_with_version"
                        THEN priv_to_ss58check_with_version(call.res.key, call.res.version)
                        ELSE pub_to_ss58check_with_version(call.res.key, call.res.version)
           IN  again.tag = "ok" /\ again.text = call.arg

----------------------------------------------------------------------------
(* Master keys *)

\* C7: a seed whose keyed hash has a left half that is no valid scalar (zero,
\* or not below the curve order) makes from_seed, inherent and of the trait,
\* fail with CanNotDerivePairFromSeed.
C7_InvalidSeed ==
    ( /\ call.op \in {"from_seed", "DeterministicPrivateKey::from_seed"}
      /\ ~ScalarValid(HmacSha512(BitcoinSeed, call.arg).il) )
        => /\ call.res.tag = "err"
           /\ call.res.err = KeyError("CanNotDerivePairFromSeed")

----------------------------------------------------------------------------
(* Derivation *)

\* C8: private derivation whose first junction has a tweak that is no valid
\* scalar, or that added to the parent scalar gives zero, fails with
\* CannotDeriveKey.
C8_InvalidChild ==
    ( /\ call.op = "priv_derive"
      /\ Len(call.arg) >= 1
      /\ LET il == ckd_priv_hmac(call.self, TryIntoChildNumber(call.arg[1]).cn).il
         IN  \/ ~ScalarValid(il)
             \/ (ScalarOf(il) + ScalarOf(call.self.private_key)) % CurveN = 0 )
        => /\ call.res.tag = "err"
           /\ call.res.err = KeyError("CannotDeriveKey")

IsDerive(op) == op \in {"priv_derive", "pub_derive"}

\* derive of the kind of the call, on the first n junctions of its path.
DeriveBefore(n) ==
    IF call.op = "priv_derive"
    THEN priv_derive(call.self, SubSeq(call.arg, 1, n), call.checks)
    ELSE pub_derive(call.self, SubSeq(call.arg, 1, n), call.checks)

HardenedAt == {i \in 1..Len(call.arg) : call.arg[i].hardened}
FirstHardened == CHOOSE i \in HardenedAt : \A j \in HardenedAt : i <= j

\* C2, as stated: public derivation that returns, on a path with a hardened
\* junction at any position, returns the error CannotDeriveFromHardenedKey.
C2_AnyPosition ==
    (call.op = "pub_derive" /\ HardenedAt # {} /\ call.res.tag # "panic")
        => /\ call.res.tag = "err"
           /\ call.res.err = KeyError("CannotDeriveFromHardenedKey")

\* C2, amended: public derivation on a path with a hardened junction never
\* returns a key, and returns the error CannotDeriveFromHardenedKey whenever
\* the junctions before the first hardened one derive successfully.
C2_HardenedGuard ==
    (call.op = "pub_derive" /\ HardenedAt # {})
        => /\ call.res.tag # "ok"
           /\ DeriveBefore(FirstHardened - 1).tag = "ok"
                  => /\ call.res.tag = "err"
                     /\ call.res.err = KeyError("CannotDeriveFromHardenedKey")

\* The hardened junction comes second, after a normal one that derived.
C2_Witness ==
    /\ call.op = "pub_derive"
    /\ Len(call.arg) = 2
    /\ ~call.arg[1].hardened
    /\ call.arg[2].hardened
    /\ call.res.tag = "err"
    /\ call.res.err = KeyError("CannotDeriveFromHardenedKey")
    /\ call.res.taken = 2

\* C3: where private derivation on a path without hardened junctions
\* succeeds, the public key of the derived private key equals, in every
\* field, the key that public derivation on the same path returns from the
\* public key of the receiver (a master key from a seed, or any other key).
C3_Commute ==
    (call.op = "priv_derive" /\ HardenedAt = {} /\ call.res.tag = "ok")
        => LET pub == pub_derive(deterministic_public_key(call.self),
                                 call.arg, call.checks)
           IN  /\ pub.tag = "ok"
               /\ pub.key = deterministic_public_key(call.res.key)

\* A master key has been derived along two normal junctions.
C3_Witness ==
    /\ call.op = "priv_derive"
    /\ call.self.depth = 0
    /\ call.self.parent_fingerprint = <<0, 0, 0, 0>>
    /\ Len(call.arg) = 2
    /\ HardenedAt = {}
    /\ call.res.tag = "ok"
    /\ call.res.key.depth = 2

\* C5: derive is a left fold of the single steps that stops at the first
\* failure.  On the empty path it returns a copy of the receiver; on a longer
\* path, if derive on the path without its last junction fails, it returns
\* that failure and has taken no junction after the failing one; otherwise it
\* returns what the single step for the last junction returns from the key
\* derived so far (a key, or that step's error and no key).
C5_LeftFold ==
    IsDerive(call.op)
        => LET n == Len(call.arg)
           IN  IF n = 0 THEN call.res = Ok(call.self) @@ [taken |-> 0]
               ELSE LET before == DeriveBefore(n - 1)
                        step   == IF call.op = "priv_derive"
                                  THEN PrivStep(before.key, call.arg[n], call.checks)
                                  ELSE PubStep(before.key, call.arg[n], call.checks)
                    IN  IF before.tag # "ok" THEN call.res = before
                        ELSE call.res = step @@ [taken |-> n]

\* Private derivation on two junctions failed at the first; the second
\* junction was not taken and no key was returned.
C5_Witness ==
    /\ call.op = "priv_derive"
    /\ Len(call.arg) = 2
    /\ call.res.tag = "err"
    /\ call.res.taken = 1
    /\ call.res.key = NoKey
    /\ PrivStep(call.self, call.arg[2], call.checks).tag = "ok"

\* C9: no call aborts; each completes with a value or an error.
C9_NoPanic ==
    call.res.tag # "panic"

====
